---- MODULE Spec2Model ----
(***************************************************************************)
(* Model of pkg/tsdb/prometheus/prometheus.go: the instance factory        *)
(* (newInstanceSettings), the dispatcher (Service.QueryData and            *)
(* Service.getDSInfo) and the error classifier (IsAPIError and             *)
(* ConvertAPIError).                                                       *)
(*                                                                         *)
(* Collaborators whose code is outside the file are modelled at their      *)
(* boundary: the instance manager (instancemgmt.InstanceManager.Get), the  *)
(* client factory (client.Create), settings.HTTPClientOptions and          *)
(* Service.executeTimeSeriesQuery return outcomes chosen by \E.            *)
(***************************************************************************)
EXTENDS Integers, Sequences, FiniteSets, TLC

VARIABLES cache, created, last, fcall, ecall

vars == <<cache, created, last, fcall, ecall>>

-----------------------------------------------------------------------------
(* Bounds *)

NumDS == 1          \* data-source identities are 1..NumDS
MaxClients == 2     \* client.Create succeeds at most this many times
MaxQueries == 2     \* longest query batch
MaxChain == 3       \* longest chain of wrapped errors

-----------------------------------------------------------------------------
(* Error values.  An error is the sequence of the nodes of its Unwrap      *)
(* chain, outermost first; the nil error is the empty sequence.  ptr is    *)
(* the identity of the allocated error object: 0 for an error allocated by *)
(* the code of this file, positive for an error received from outside.     *)

NilErr == << >>

FreshPtr == 0

\* errors.New(text) / fmt.Errorf without %w: an error with no cause.
PlainNode(p, text) ==
    [kind |-> "plain", ptr |-> p, text |-> text, Type |-> "", Msg |-> "", Detail |-> ""]

\* *apiv1.Error{Type, Msg, Detail}
APINode(p, type, msg, detail) ==
    [kind |-> "api", ptr |-> p, text |-> "", Type |-> type, Msg |-> msg, Detail |-> detail]

\* err.Error(): a wrapper carries its whole formatted message; an
\* *apiv1.Error prints "<Type>: <Msg>".
ErrorText(err) ==
    IF err = NilErr THEN ""
    ELSE IF Head(err).kind = "api" THEN Head(err).Type \o ": " \o Head(err).Msg
    ELSE Head(err).text

\* fmt.Errorf(prefix + "%w", err): a new error whose text is prefix
\* followed by err's text and whose Unwrap() is err.
Wrap(p, prefix, err) ==
    <<[kind |-> "wrap", ptr |-> p, text |-> prefix \o ErrorText(err),
       Type |-> "", Msg |-> "", Detail |-> ""]>> \o err

-----------------------------------------------------------------------------
(* Raw instance settings (backend.DataSourceInstanceSettings).             *)

\* A JSON value found (or not) under the key "timeInterval".
JSONValue(t, s) == [t |-> t, s |-> s]

Absent == JSONValue("absent", "")

TimeIntervalValues ==
    { Absent, JSONValue("null", ""), JSONValue("string", ""),
      JSONValue("string", "15s"), JSONValue("string", "1m"),
      JSONValue("number", ""), JSONValue("bool", ""),
      JSONValue("object", ""), JSONValue("array", "") }

\* settings.JSONData: bytes that do not parse ("invalid"), a document that
\* is not an object ("array"), the document null, or an object.
JSONDocs ==
    { [doc |-> d, timeInterval |-> Absent] : d \in {"invalid", "array", "null"} }
    \cup { [doc |-> "object", timeInterval |-> v] : v \in TimeIntervalValues }

\* httpclient.Options.SigV4: nil, or a block with a Service field.
NoSigV4 == [present |-> FALSE, Service |-> ""]

SigV4Blocks == { NoSigV4 } \cup { [present |-> TRUE, Service |-> s] : s \in {"", "aps", "es"} }

HTTPOptionsErr == <<PlainNode(1, "invalid http settings")>>

\* The outcome of settings.HTTPClientOptions(): options or an error.
HTTPOutcomes ==
    { [err |-> NilErr, SigV4 |-> b] : b \in SigV4Blocks }
    \cup { [err |-> HTTPOptionsErr, SigV4 |-> NoSigV4] }

URLOf(id) == IF id = 1 THEN "http://prom-1" ELSE "http://prom-n"

SettingsOf(id, json, http) ==
    [ID |-> id, URL |-> URLOf(id), JSONData |-> json, http |-> http]

-----------------------------------------------------------------------------
(* Instances (DatasourceInfo).                                             *)

\* The nil instance returned next to an error.
NoInstance == [ID |-> 0, URL |-> "", TimeInterval |-> "", promClient |-> 0]

DatasourceInfo(id, url, timeInterval, client) ==
    [ID |-> id, URL |-> url, TimeInterval |-> timeInterval, promClient |-> client]

-----------------------------------------------------------------------------
(* newInstanceSettings: the instance factory.                              *)

\* json.Unmarshal(settings.JSONData, &jsonData) into a non-nil empty map:
\* bytes that do not parse and documents that are not objects give an
\* error; the document null leaves the map empty.
UnmarshalErr(json) ==
    IF json.doc = "invalid" THEN <<PlainNode(2, "unexpected end of JSON input")>>
    ELSE IF json.doc = "array"
         THEN <<PlainNode(3, "json: cannot unmarshal array into Go value of type map[string]interface {}")>>
    ELSE NilErr

\* The nil interface value: what a map lookup gives for a key that is
\* missing, and what encoding/json stores for a JSON null.
NilIface == JSONValue("nil", "")

\* jsonData["timeInterval"]
LookupTimeInterval(json) ==
    IF json.doc = "object" /\ json.timeInterval.t \notin {"absent", "null"}
    THEN json.timeInterval
    ELSE NilIface

\* Variant: the service namespace is a default, kept when the host set one.
SetSigV4Service_default(sigv4) ==
    IF sigv4.present /\ sigv4.Service = ""
    THEN [present |-> TRUE, Service |-> "aps"]
    ELSE sigv4

\* if httpCliOpts.SigV4 != nil { httpCliOpts.SigV4.Service = "aps" }
SetSigV4Service(sigv4) ==
    IF sigv4.present
    THEN [present |-> TRUE, Service |-> "aps"]
    ELSE sigv4

\* Variant: every value other than a string counts as a missing key.
TimeIntervalOf_lenient(v) ==
    IF v.t = "string"
    THEN [timeInterval |-> v.s, ok |-> TRUE]
    ELSE [timeInterval |-> "", ok |-> TRUE]

\* Variant: a missing key is rejected like a value of the wrong type.
TimeIntervalOf_required(v) ==
    IF v.t = "string"
    THEN [timeInterval |-> v.s, ok |-> TRUE]
    ELSE [timeInterval |-> "", ok |-> FALSE]

\* timeInterval := ""; if the looked-up value is not nil it must be a
\* string (timeIntervalJson.(string)), else ok is false.
TimeIntervalOf(v) ==
    IF v = NilIface
    THEN [timeInterval |-> "", ok |-> TRUE]
    ELSE IF v.t = "string"
         THEN [timeInterval |-> v.s, ok |-> TRUE]
         ELSE [timeInterval |-> "", ok |-> FALSE]

\* Variant: the client factory's error gets a context prefix like the two
\* errors before it.
CreateFailure_wrapped(err) == Wrap(FreshPtr, "error creating client: ", err)

\* if err != nil { return nil, err } after client.Create
CreateFailure(err) == err

NoCreateArgs == [called |-> FALSE, URL |-> "", SigV4 |-> NoSigV4, doc |-> ""]

FactoryResult(instance, err, args) ==
    [instance |-> instance, err |-> err, create |-> args]

\* The factory closure applied to settings.  createErr and client are the
\* outcome of client.Create should the factory reach it.
newInstanceSettings(settings, createErr, client) ==
    LET jsonErr == UnmarshalErr(settings.JSONData)
        opts    == SetSigV4Service(settings.http.SigV4)
        ti      == TimeIntervalOf(LookupTimeInterval(settings.JSONData))
        args    == [called |-> TRUE, URL |-> settings.URL, SigV4 |-> opts,
                    doc |-> settings.JSONData.doc]
    IN  IF jsonErr # NilErr
        THEN FactoryResult(NoInstance,
                           Wrap(FreshPtr, "error reading settings: ", jsonErr),
                           NoCreateArgs)
        ELSE IF settings.http.err # NilErr
        THEN FactoryResult(NoInstance,
                           Wrap(FreshPtr, "error getting http options: ", settings.http.err),
                           NoCreateArgs)
        ELSE IF ~ti.ok
        THEN FactoryResult(NoInstance,
                           <<PlainNode(FreshPtr, "invalid time-interval provided")>>,
                           NoCreateArgs)
        ELSE IF createErr # NilErr
        THEN FactoryResult(NoInstance, CreateFailure(createErr), args)
        ELSE FactoryResult(DatasourceInfo(settings.ID, settings.URL, ti.timeInterval, client),
                           NilErr, args)

\* client.Create: succeeds, or fails with an error of its own, which may
\* itself wrap a cause.
CreateErrs ==
    { NilErr,
      <<PlainNode(4, "invalid url")>>,
      Wrap(5, "error building http client: ", <<PlainNode(6, "bad tls config")>>) }

-----------------------------------------------------------------------------
(* The dispatcher: Service.getDSInfo and Service.QueryData.                *)

Identities == 1..NumDS

NoCache == [id \in Identities |-> NoInstance]

KeyErr == <<PlainNode(7, "data source settings cannot be nil")>>

\* s.im.Get(pluginCtx).  The instance manager fails to derive the
\* identity ("keyerr"), returns the instance it holds for the identity
\* ("hit"), or invokes the factory ("build") and keeps an instance the
\* factory returned.  Whether a held instance is reused or rebuilt is the
\* manager's decision, taken on the host's word, and is left open here.
imGet(c, n, settings, choice, createErr) ==
    LET f == newInstanceSettings(settings, createErr, n + 1)
    IN  IF choice = "keyerr"
        THEN [instance |-> NoInstance, err |-> KeyErr, cache |-> c, created |-> n,
              nFactory |-> 0, nCreate |-> 0]
        ELSE IF choice = "hit"
        THEN [instance |-> c[settings.ID], err |-> NilErr, cache |-> c, created |-> n,
              nFactory |-> 0, nCreate |-> 0]
        ELSE IF f.err # NilErr
        THEN [instance |-> NoInstance, err |-> f.err, cache |-> c, created |-> n,
              nFactory |-> 1, nCreate |-> IF f.create.called THEN 1 ELSE 0]
        ELSE [instance |-> f.instance, err |-> NilErr,
              cache |-> [c EXCEPT ![settings.ID] = f.instance], created |-> n + 1,
              nFactory |-> 1, nCreate |-> 1]

\* getDSInfo: the manager's error is returned as it is, else a copy of the
\* instance.
getDSInfo(c, n, settings, choice, createErr) ==
    LET g == imGet(c, n, settings, choice, createErr)
    IN  IF g.err # NilErr
        THEN [g EXCEPT !.instance = NoInstance]
        ELSE g

\* s.executeTimeSeriesQuery(ctx, req, dsInfo): a response, or an error.
TSErr == <<APINode(8, "bad_data", "parse error", "unexpected end of input")>>

TSOutcomes == { [result |-> "frames", err |-> NilErr], [result |-> "nil", err |-> TSErr] }

executeTimeSeriesQuery(queries, dsInfo, outcome) == outcome

NoQueriesErr == <<PlainNode(FreshPtr, "query contains no queries")>>

QueryTypes == {"timeSeriesQuery", "", "exemplar"}

QDResult(result, err, g, nGet, nTS, tsHandle, tsQueries) ==
    [result |-> result, err |-> err, cache |-> g.cache, created |-> g.created,
     resolved |-> g.instance, resErr |-> g.err,
     nGet |-> nGet, nFactory |-> g.nFactory, nCreate |-> g.nCreate,
     nTS |-> nTS, tsHandle |-> tsHandle, tsQueries |-> tsQueries]

Untouched(c, n) ==
    [instance |-> NoInstance, err |-> NilErr, cache |-> c, created |-> n,
     nFactory |-> 0, nCreate |-> 0]

\* Variant: the instance is resolved before the batch is looked at.
QueryData_resolveFirst(c, n, queries, settings, choice, createErr, outcome) ==
    LET g == getDSInfo(c, n, settings, choice, createErr)
        r == executeTimeSeriesQuery(queries, g.instance, outcome)
    IN  IF Len(queries) = 0
        THEN QDResult("empty", NoQueriesErr, g, 1, 0, NoInstance, << >>)
        ELSE IF g.err # NilErr
        THEN QDResult("nil", g.err, g, 1, 0, NoInstance, << >>)
        ELSE QDResult(r.result, r.err, g, 1, 1, g.instance, queries)

\* Variant: only the tag "timeSeriesQuery" is routed, any other is refused.
QueryData_strict(c, n, queries, settings, choice, createErr, outcome) ==
    LET g == getDSInfo(c, n, settings, choice, createErr)
        r == executeTimeSeriesQuery(queries, g.instance, outcome)
    IN  IF Len(queries) = 0
        THEN QDResult("empty", NoQueriesErr, Untouched(c, n), 0, 0, NoInstance, << >>)
        ELSE IF g.err # NilErr
        THEN QDResult("nil", g.err, g, 1, 0, NoInstance, << >>)
        ELSE IF queries[1] # "timeSeriesQuery"
        THEN QDResult("nil", <<PlainNode(FreshPtr, "unsupported query type")>>, g, 1, 0,
                      NoInstance, << >>)
        ELSE QDResult(r.result, r.err, g, 1, 1, g.instance, queries)

\* QueryData: an empty batch is refused; else the instance is resolved and
\* the request handed to executeTimeSeriesQuery, under the case
\* "timeSeriesQuery" (fallthrough) and under default alike.
QueryData(c, n, queries, settings, choice, createErr, outcome) ==
    LET g == getDSInfo(c, n, settings, choice, createErr)
        r == executeTimeSeriesQuery(queries, g.instance, outcome)
    IN  IF Len(queries) = 0
        THEN QDResult("empty", NoQueriesErr, Untouched(c, n), 0, 0, NoInstance, << >>)
        ELSE IF g.err # NilErr
        THEN QDResult("nil", g.err, g, 1, 0, NoInstance, << >>)
        ELSE IF queries[1] = "timeSeriesQuery"
        THEN QDResult(r.result, r.err, g, 1, 1, g.instance, queries)
        ELSE QDResult(r.result, r.err, g, 1, 1, g.instance, queries)

-----------------------------------------------------------------------------
(* The error classifier: IsAPIError and ConvertAPIError.                   *)

\* errors.As(err, &e) with e of type *apiv1.Error: the first node of the
\* chain of that type, found by following Unwrap; 0 when there is none.
RECURSIVE AsIndex(_, _)
AsIndex(err, i) ==
    IF i > Len(err) THEN 0
    ELSE IF err[i].kind = "api" THEN i
    ELSE AsIndex(err, i + 1)

\* Variant: only the error itself is examined, not its causes.
IsAPIError_shallow(err) == err # NilErr /\ err[1].kind = "api"

IsAPIError(err) == AsIndex(err, 1) # 0

\* Variant: the type is tested on the error itself, without Unwrap.
ConvertAPIError_shallow(err) ==
    IF err # NilErr /\ err[1].kind = "api"
    THEN <<PlainNode(FreshPtr, err[1].Msg \o ": " \o err[1].Detail)>>
    ELSE err

\* fmt.Errorf("%s: %s", e.Msg, e.Detail) when errors.As finds e, else err.
ConvertAPIError(err) ==
    LET i == AsIndex(err, 1)
    IN  IF i # 0
        THEN <<PlainNode(FreshPtr, err[i].Msg \o ": " \o err[i].Detail)>>
        ELSE err

\* Errors handed to the classifier: nil, errors with no cause (among them a
\* plain error whose text reads like a remote query error), remote query
\* errors, and those wrapped up to MaxChain deep.
TerminalErrs ==
    { <<PlainNode(9, t)>> : t \in {"context deadline exceeded", "connection refused",
                                     "bad_data: invalid expression"} }
    \cup { <<APINode(9, "bad_data", m, d)>> :
              m \in {"bad_data", ""}, d \in {"invalid expression", ""} }

RECURSIVE ErrChains(_)
ErrChains(k) ==
    IF k <= 1 THEN TerminalErrs
    ELSE LET shorter == ErrChains(k - 1)
         IN  shorter \cup { Wrap(9, p, e) : p \in {"query failed: ", "retry: "}, e \in shorter }

ErrValues == { NilErr } \cup ErrChains(MaxChain)

-----------------------------------------------------------------------------
(* State.                                                                  *)

\* What the caller and the collaborators saw of a call.
Observed(r) ==
    [result |-> r.result, err |-> r.err, resolved |-> r.resolved, resErr |-> r.resErr,
     nGet |-> r.nGet, nFactory |-> r.nFactory, nCreate |-> r.nCreate,
     nTS |-> r.nTS, tsHandle |-> r.tsHandle, tsQueries |-> r.tsQueries]

NoLast ==
    [op |-> "none", queries |-> << >>, ds |-> 0,
     out |-> Observed(QDResult("nil", NilErr, Untouched(NoCache, 0), 0, 0, NoInstance, << >>))]

NoFCall ==
    [done |-> FALSE, settings |-> SettingsOf(0, [doc |-> "null", timeInterval |-> Absent],
                                             [err |-> NilErr, SigV4 |-> NoSigV4]),
     createErr |-> NilErr, out |-> FactoryResult(NoInstance, NilErr, NoCreateArgs)]

NoECall == [op |-> "none", in |-> NilErr, isAPI |-> FALSE, out |-> NilErr]

Init ==
    /\ cache = NoCache
    /\ created = 0
    /\ last = NoLast
    /\ fcall = NoFCall
    /\ ecall = NoECall

\* Settings the host sends with a request to the dispatcher: with an
\* interval, and with an interval of the wrong type.
DispatchSettings(id) ==
    { SettingsOf(id, [doc |-> "object", timeInterval |-> v], [err |-> NilErr, SigV4 |-> NoSigV4]) :
        v \in {JSONValue("string", "15s"), JSONValue("number", "")} }

\* The settings are read only by the factory, that is under "build".
SettingsRead(id, choice) ==
    IF choice = "build" THEN DispatchSettings(id)
    ELSE { SettingsOf(id, [doc |-> "object", timeInterval |-> JSONValue("string", "15s")],
                      [err |-> NilErr, SigV4 |-> NoSigV4]) }

Batches == UNION { [1..k -> QueryTypes] : k \in 0..MaxQueries }

Choices(c, id) == {"keyerr", "build"} \cup (IF c[id] # NoInstance THEN {"hit"} ELSE {})

\* Outcomes of client.Create, which is called only under "build".
CreateOutcomes(choice) ==
    IF choice = "build" THEN {NilErr, <<PlainNode(4, "invalid url")>>} ELSE {NilErr}

\* Outcomes of executeTimeSeriesQuery, which is called only with a batch.
QueryOutcomes(queries) ==
    IF queries = << >> THEN {[result |-> "frames", err |-> NilErr]} ELSE TSOutcomes

\* A request arrives at QueryData.
QueryDataCall ==
    \E id \in Identities, queries \in Batches :
      \E outcome \in QueryOutcomes(queries), choice \in Choices(cache, id) :
        \E settings \in SettingsRead(id, choice), createErr \in CreateOutcomes(choice) :
          \E r \in {QueryData(cache, created, queries, settings, choice, createErr, outcome)} :
              /\ r.created <= MaxClients
              /\ cache' = r.cache
              /\ created' = r.created
              /\ last' = [op |-> "QueryData", queries |-> queries, ds |-> id,
                          out |-> Observed(r)]
              /\ UNCHANGED <<fcall, ecall>>

\* Another handler of the package resolves the instance.
GetDSInfoCall ==
    \E id \in Identities :
      \E choice \in Choices(cache, id) :
        \E settings \in SettingsRead(id, choice), createErr \in CreateOutcomes(choice) :
          \E g \in {getDSInfo(cache, created, settings, choice, createErr)} :
              /\ g.created <= MaxClients
              /\ cache' = g.cache
              /\ created' = g.created
              /\ last' = [op |-> "getDSInfo", queries |-> << >>, ds |-> id,
                          out |-> Observed(QDResult("nil", g.err, g, 1, 0, NoInstance, << >>))]
              /\ UNCHANGED <<fcall, ecall>>

Next == QueryDataCall \/ GetDSInfoCall

Spec == Init /\ [][Next]_vars

\* The instance manager applies the factory to the settings of a request.
Construct ==
    \E id \in Identities, json \in JSONDocs, http \in HTTPOutcomes,
       createErr \in CreateErrs :
        LET f == newInstanceSettings(SettingsOf(id, json, http), createErr, created + 1)
        IN  /\ f.err = NilErr => created < MaxClients
            /\ created' = IF f.err = NilErr THEN created + 1 ELSE created
            /\ fcall' = [done |-> TRUE, settings |-> SettingsOf(id, json, http),
                         createErr |-> createErr, out |-> f]
            /\ UNCHANGED <<cache, last, ecall>>

NextFactory == Construct

SpecFactory == Init /\ [][NextFactory]_vars

IsAPIErrorCall ==
    \E err \in ErrValues :
        /\ ecall' = [op |-> "IsAPIError", in |-> err, isAPI |-> IsAPIError(err), out |-> NilErr]
        /\ UNCHANGED <<cache, created, last, fcall>>

ConvertAPIErrorCall ==
    \E err \in ErrValues :
        /\ ecall' = [op |-> "ConvertAPIError", in |-> err, isAPI |-> FALSE,
                     out |-> ConvertAPIError(err)]
        /\ UNCHANGED <<cache, created, last, fcall>>

NextErr == IsAPIErrorCall \/ ConvertAPIErrorCall

SpecErr == Init /\ [][NextErr]_vars

-----------------------------------------------------------------------------
(* Properties of the dispatcher, checked under Spec.                       *)

EmptyBatchCall == last.op = "QueryData" /\ last.queries = << >>

EmptyBatchRefused ==
    EmptyBatchCall =>
        /\ last.out.err = NoQueriesErr
        /\ ErrorText(last.out.err) = "query contains no queries"
        /\ last.out.result = "empty"
        /\ last.out.nGet = 0
        /\ last.out.nFactory = 0
        /\ last.out.nCreate = 0
        /\ last.out.nTS = 0

EmptyBatchStep ==
    (last'.op = "QueryData" /\ last'.queries = << >>) =>
        (cache' = cache /\ created' = created)

\* C4: QueryData on an empty batch fails with "query contains no queries"
\* without asking the instance manager for the instance, without running
\* the factory or client.Create, without executing a time-series query, and
\* the step leaves the instance cache as it was.
C4_EmptyBatchFailsBeforeResolution == [](EmptyBatchRefused) /\ [][EmptyBatchStep]_vars

\* An empty batch arrived while the manager held an instance for the
\* data source and was refused.
C4_Witness ==
    /\ EmptyBatchCall
    /\ last.out.err = NoQueriesErr
    /\ \E id \in Identities : cache[id] # NoInstance

\* C10: for a non-empty batch QueryData asks for the instance once; when
\* the resolution succeeds the whole batch goes to executeTimeSeriesQuery
\* exactly once with the resolved instance and its outcome is the outcome
\* of QueryData, whatever the query types of the batch; when the
\* resolution fails executeTimeSeriesQuery is not called and the error of
\* the resolution is returned as it is, with a nil response.
C10_BatchRoutedToTimeSeries ==
    (last.op = "QueryData" /\ last.queries # << >>) =>
        /\ last.out.nGet = 1
        /\ last.out.resErr = NilErr =>
              /\ last.out.resolved # NoInstance
              /\ last.out.nTS = 1
              /\ last.out.tsHandle = last.out.resolved
              /\ last.out.tsQueries = last.queries
              /\ [result |-> last.out.result, err |-> last.out.err] \in TSOutcomes
        /\ last.out.resErr # NilErr =>
              /\ last.out.nTS = 0
              /\ last.out.err = last.out.resErr
              /\ last.out.result = "nil"

\* A batch of two whose first query carries an unrecognised type and whose
\* second carries another type was executed on the time-series path.
C10_Witness ==
    /\ last.op = "QueryData"
    /\ Len(last.queries) = 2
    /\ last.queries[1] = "exemplar"
    /\ last.queries[2] = ""
    /\ last.out.nTS = 1
    /\ last.out.tsHandle.promClient > 0

-----------------------------------------------------------------------------
(* Properties of the factory, checked under SpecFactory.                   *)

\* The factory got past json.Unmarshal and settings.HTTPClientOptions.
ReachedValidation ==
    /\ fcall.done
    /\ UnmarshalErr(fcall.settings.JSONData) = NilErr
    /\ fcall.settings.http.err = NilErr

GivenInterval == fcall.settings.JSONData.timeInterval

ValidationFailed ==
    /\ ErrorText(fcall.out.err) = "invalid time-interval provided"
    /\ Len(fcall.out.err) = 1
    /\ fcall.out.instance = NoInstance
    /\ ~fcall.out.create.called

\* C5 as stated: every value under "timeInterval" that is not a string,
\* JSON null included, makes the factory fail with "invalid time-interval
\* provided" before client.Create.
C5_AsStated ==
    (ReachedValidation /\ GivenInterval.t \in {"number", "bool", "object", "array", "null"})
        => ValidationFailed

\* C5, amended: a number, boolean, object or array under "timeInterval"
\* always makes the factory fail without calling client.Create, with
\* "invalid time-interval provided" once the settings parsed and the http
\* options were obtained; a JSON null is taken as a missing key and gives
\* the interval "".
C5_NonStringRejectedNullAsMissing ==
    /\ (fcall.done /\ GivenInterval.t \in {"number", "bool", "object", "array"}) =>
          /\ fcall.out.err # NilErr
          /\ fcall.out.instance = NoInstance
          /\ ~fcall.out.create.called
    /\ (ReachedValidation /\ GivenInterval.t \in {"number", "bool", "object", "array"}) =>
          ValidationFailed
    /\ (ReachedValidation /\ GivenInterval.t = "null") =>
          /\ fcall.out.create.called
          /\ fcall.createErr = NilErr =>
                (fcall.out.err = NilErr /\ fcall.out.instance.TimeInterval = "")

\* A number under "timeInterval" was refused by the validation.
C5_Witness ==
    /\ ReachedValidation
    /\ GivenInterval.t = "number"
    /\ ValidationFailed

\* C6 as stated: an error of client.Create comes back inside a new error
\* that adds context to it.
C6_AsStated ==
    (fcall.done /\ fcall.out.create.called /\ fcall.createErr # NilErr) =>
        /\ fcall.out.err # NilErr
        /\ Head(fcall.out.err).kind = "wrap"
        /\ Tail(fcall.out.err) = fcall.createErr

\* C6, amended: an error of client.Create is returned to the caller as
\* the very same error, with no context added and a nil instance; the
\* errors of json.Unmarshal and of HTTPClientOptions are the ones wrapped,
\* under "error reading settings: " and "error getting http options: ".
C6_CreateErrorReturnedBare ==
    /\ (fcall.done /\ fcall.out.create.called /\ fcall.createErr # NilErr) =>
          /\ fcall.out.err = fcall.createErr
          /\ fcall.out.instance = NoInstance
    /\ (fcall.done /\ UnmarshalErr(fcall.settings.JSONData) # NilErr) =>
          /\ Head(fcall.out.err).kind = "wrap"
          /\ Head(fcall.out.err).ptr = FreshPtr
          /\ Tail(fcall.out.err) = UnmarshalErr(fcall.settings.JSONData)
          /\ ErrorText(fcall.out.err) =
                "error reading settings: " \o ErrorText(UnmarshalErr(fcall.settings.JSONData))
    /\ (fcall.done /\ UnmarshalErr(fcall.settings.JSONData) = NilErr
          /\ fcall.settings.http.err # NilErr) =>
          /\ Head(fcall.out.err).kind = "wrap"
          /\ Head(fcall.out.err).ptr = FreshPtr
          /\ Tail(fcall.out.err) = fcall.settings.http.err
          /\ ErrorText(fcall.out.err) =
                "error getting http options: " \o ErrorText(fcall.settings.http.err)

\* client.Create failed with an error that wraps a cause, and the factory
\* returned that error.
C6_Witness ==
    /\ fcall.done
    /\ fcall.out.create.called
    /\ Len(fcall.createErr) = 2
    /\ fcall.out.err = fcall.createErr

\* The key "timeInterval" is missing from the parsed settings.
KeyMissing ==
    \/ fcall.settings.JSONData.doc = "null"
    \/ fcall.settings.JSONData.doc = "object" /\ GivenInterval.t = "absent"

\* C7: settings without the key "timeInterval" never fail the validation,
\* and give an instance whose TimeInterval is "" whenever client.Create
\* succeeds; every instance the factory returns has a string for
\* TimeInterval, the one given in the settings when there was one.
C7_MissingIntervalDefaultsToEmpty ==
    /\ (ReachedValidation /\ KeyMissing) =>
          /\ fcall.out.create.called
          /\ ErrorText(fcall.out.err) # "invalid time-interval provided"
          /\ fcall.createErr = NilErr =>
                /\ fcall.out.err = NilErr
                /\ fcall.out.instance # NoInstance
                /\ fcall.out.instance.TimeInterval = ""
    /\ (fcall.done /\ fcall.out.err = NilErr) =>
          /\ fcall.out.instance.TimeInterval \in STRING
          /\ GivenInterval.t = "string" => fcall.out.instance.TimeInterval = GivenInterval.s
          /\ GivenInterval.t # "string" => fcall.out.instance.TimeInterval = ""

\* Settings that are an object without the key gave an instance with the
\* empty interval.
C7_Witness ==
    /\ fcall.done
    /\ fcall.settings.JSONData.doc = "object"
    /\ GivenInterval.t = "absent"
    /\ fcall.out.err = NilErr
    /\ fcall.out.instance.promClient > 0
    /\ fcall.out.instance.TimeInterval = ""

\* C9: whenever the factory calls client.Create with options that came
\* with a SigV4 block, the Service of the block it passes is "aps" whatever
\* the host had put there; options that came without a block are passed
\* without one.
C9_SigV4ServiceForced ==
    (fcall.done /\ fcall.out.create.called) =>
        /\ fcall.settings.http.SigV4.present =>
              fcall.out.create.SigV4 = [present |-> TRUE, Service |-> "aps"]
        /\ ~fcall.settings.http.SigV4.present =>
              fcall.out.create.SigV4 = NoSigV4

\* The host had set the Service "es" and client.Create was called.
C9_Witness ==
    /\ fcall.done
    /\ fcall.out.create.called
    /\ fcall.settings.http.SigV4 = [present |-> TRUE, Service |-> "es"]
    /\ fcall.out.create.SigV4.Service = "aps"

-----------------------------------------------------------------------------
(* Properties of the error classifier, checked under SpecErr.              *)

HasAPIError(err) == \E i \in 1..Len(err) : err[i].kind = "api"

\* C8: IsAPIError(err) is true exactly when the chain of err holds an
\* *apiv1.Error; ConvertAPIError(err) is then a new error with no cause
\* whose text is "<Msg>: <Detail>" of that error, and is err itself when
\* the chain holds none (nil for nil).
C8_ClassifierFollowsChain ==
    /\ ecall.op = "IsAPIError" => (ecall.isAPI <=> HasAPIError(ecall.in))
    /\ (ecall.op = "ConvertAPIError" /\ HasAPIError(ecall.in)) =>
          /\ Len(ecall.out) = 1
          /\ ecall.out[1].ptr = FreshPtr
          /\ ecall.out[1].kind = "plain"
          /\ \E i \in 1..Len(ecall.in) :
                /\ ecall.in[i].kind = "api"
                /\ ErrorText(ecall.out) = ecall.in[i].Msg \o ": " \o ecall.in[i].Detail
    /\ (ecall.op = "ConvertAPIError" /\ ~HasAPIError(ecall.in)) =>
          ecall.out = ecall.in

\* A remote query error wrapped twice was converted to
\* "bad_data: invalid expression".
C8_Witness ==
    /\ ecall.op = "ConvertAPIError"
    /\ Len(ecall.in) = 3
    /\ ecall.in[3].kind = "api"
    /\ ErrorText(ecall.out) = "bad_data: invalid expression"

====
